---------------------------- MODULE Spec2Model ----------------------------
(***************************************************************************)
(* Coin ledger of the booking backend: the storage layer (DatabaseStorage) *)
(* and the two route handlers that change coin balances,                   *)
(* POST /api/appointments (award) and POST /api/orders (redeem).           *)
(*                                                                         *)
(* Every storage method is a single SQL statement and is one atomic step.  *)
(* A handler is a sequence of awaited storage calls; other requests may    *)
(* run between any two of them.  A storage call may throw, in which case   *)
(* the handler's catch block answers 400 and nothing is undone.            *)
(***************************************************************************)
EXTENDS Integers, Sequences, FiniteSets

\* ------------------------------------------------------------------ bounds
MaxCoins == 1
MaxRequests == 2
MaxCalls == 2

\* ------------------------------------------------------------------ values
UserList == <<"u1", "u2">>
Users == {UserList[i] : i \in 1..Len(UserList)}
MissingUser == "u0"
Requests == 1..MaxRequests
Calls == 1..MaxCalls
Coins == 0..MaxCoins
Deltas == (0 - MaxCoins)..MaxCoins

AppointmentsRoute == "POST /api/appointments"
OrdersRoute == "POST /api/orders"
NoRoute == "none"

EarnedAppointment == "earned_appointment"
Redeemed == "redeemed"

\* "אין מספיק מטבעות"
NotEnoughCoins == "not enough coins"
StorageError == "storage error"

\* coinBalance of a users row inserted without one (the column default)
DefaultCoinBalance == 0

\* the result of a select that matched no row
Undefined == [found |-> FALSE, coinBalance |-> 0]

StorageCalls ==
    {"createAppointment", "getUser", "updateUserCoins", "addCoinTransaction", "createOrder"}

\* users, appointments, orders, coinTransactions: the tables (users by id,
\*   the others in insertion order)
\* req: per request of the two handlers, its body, the storage call it awaits
\*   (pc), its locals (appointment.id, user) and its response
\* calls: per direct use of storage.updateUserCoins, its arguments and result
VARIABLES users, appointments, orders, coinTransactions, req, calls

vars == <<users, appointments, orders, coinTransactions, req, calls>>
tables == <<users, appointments, orders, coinTransactions>>

\* ----------------------------------------------------------------- storage
getUser(id) ==
    IF id \in DOMAIN users
    THEN [found |-> TRUE, coinBalance |-> users[id].coinBalance]
    ELSE Undefined

createAppointment(userId, coinsEarned) ==
    Append(appointments,
           [id |-> Len(appointments) + 1, userId |-> userId, coinsEarned |-> coinsEarned])

createOrder(userId, coinsUsed) ==
    Append(orders, [userId |-> userId, coinsUsed |-> coinsUsed])

addCoinTransaction(transaction) ==
    Append(coinTransactions, transaction)

\* INSERT ... ON CONFLICT (id) DO UPDATE SET ...userData: a new id gets a row
\* (coinBalance from userData, else the column default); an existing row keeps
\* its coinBalance unless userData carries one, which overwrites it
upsertUser(userData) ==
    IF userData.id \in DOMAIN users
    THEN IF userData.hasCoinBalance
         THEN [users EXCEPT ![userData.id].coinBalance = userData.coinBalance]
         ELSE users
    ELSE [id \in DOMAIN users \cup {userData.id} |->
             IF id = userData.id
             THEN [coinBalance |-> IF userData.hasCoinBalance
                                   THEN userData.coinBalance
                                   ELSE DefaultCoinBalance]
             ELSE users[id]]

updateUserCoinsAbsolute(userId, amount) ==
    IF userId \in DOMAIN users
    THEN [users EXCEPT ![userId].coinBalance = amount]
    ELSE users

updateUserCoins(userId, amount) ==
    IF userId \in DOMAIN users
    THEN [users EXCEPT ![userId].coinBalance = @ + amount]
    ELSE users

\* what updateUserCoins returns: the updated row, or undefined when the
\* UPDATE matched no row and RETURNING gave an empty list
updateUserCoinsResult(userId) ==
    IF userId \in DOMAIN users THEN "returned row" ELSE "returned undefined"

RECURSIVE SumAmounts(_, _)
SumAmounts(txs, userId) ==
    IF txs = <<>> THEN 0
    ELSE (IF Head(txs).userId = userId THEN Head(txs).amount ELSE 0)
         + SumAmounts(Tail(txs), userId)

\* getUserCoinTransactions(userId), summed
LedgerSum(userId) == SumAmounts(coinTransactions, userId)

\* ---------------------------------------------------------------- handlers
AwardTransaction(userId, coinsEarned, appointmentId) ==
    [userId |-> userId, amount |-> coinsEarned, type |-> EarnedAppointment,
     relatedId |-> appointmentId]

RedeemTransactionPositive(userId, coinsUsed) ==
    [userId |-> userId, amount |-> coinsUsed, type |-> Redeemed, relatedId |-> 0]

RedeemTransaction(userId, coinsUsed) ==
    [userId |-> userId, amount |-> 0 - coinsUsed, type |-> Redeemed, relatedId |-> 0]

RedeemDeltaPositive(coinsUsed) == coinsUsed

RedeemDelta(coinsUsed) == 0 - coinsUsed

InsufficientCoinsOffByOne(user, coinsUsed) ==
    (~user.found) \/ user.coinBalance <= coinsUsed

InsufficientCoins(user, coinsUsed) ==
    (~user.found) \/ user.coinBalance < coinsUsed

IdleRequest ==
    [route |-> NoRoute, userId |-> MissingUser, amount |-> 0, pc |-> "idle",
     appointmentId |-> 0, user |-> Undefined, status |-> 0, message |-> "",
     failedAt |-> ""]

\* amount is the delta of updateUserCoins, or the coinBalance of upsertUser's
\* userData when hasCoinBalance says it carries one
IdleCall ==
    [method |-> "none", userId |-> MissingUser, amount |-> 0, hasCoinBalance |-> FALSE,
     pc |-> "idle", outcome |-> ""]

\* requests are taken in the order of their numbers
MayArrive(r) ==
    /\ req[r].pc = "idle"
    /\ IF r = 1 THEN TRUE ELSE req[r - 1].pc # "idle"

InFlight(r) == req[r].pc \in StorageCalls

Respond(r, status, message) ==
    req' = [req EXCEPT ![r].pc = "done", ![r].status = status, ![r].message = message]

ReceiveAppointment(r, userId, coinsEarned) ==
    /\ MayArrive(r)
    /\ req' = [req EXCEPT ![r] = [IdleRequest EXCEPT
                  !.route = AppointmentsRoute, !.userId = userId,
                  !.amount = coinsEarned, !.pc = "createAppointment"]]
    /\ UNCHANGED <<tables, calls>>

AppointmentCreate(r) ==
    /\ req[r].route = AppointmentsRoute
    /\ req[r].pc = "createAppointment"
    /\ appointments' = createAppointment(req[r].userId, req[r].amount)
    /\ req' = [req EXCEPT ![r].pc = "addCoinTransaction",
                          ![r].appointmentId = Len(appointments) + 1]
    /\ UNCHANGED <<users, orders, coinTransactions, calls>>

AppointmentAddCoinTransaction(r) ==
    /\ req[r].route = AppointmentsRoute
    /\ req[r].pc = "addCoinTransaction"
    /\ coinTransactions' = addCoinTransaction(
           AwardTransaction(req[r].userId, req[r].amount, req[r].appointmentId))
    /\ req' = [req EXCEPT ![r].pc = "updateUserCoins"]
    /\ UNCHANGED <<users, appointments, orders, calls>>

AppointmentUpdateUserCoins(r) ==
    /\ req[r].route = AppointmentsRoute
    /\ req[r].pc = "updateUserCoins"
    /\ users' = updateUserCoins(req[r].userId, req[r].amount)
    /\ Respond(r, 200, "")
    /\ UNCHANGED <<appointments, orders, coinTransactions, calls>>

ReceiveOrder(r, userId, coinsUsed) ==
    /\ MayArrive(r)
    /\ req' = [req EXCEPT ![r] = [IdleRequest EXCEPT
                  !.route = OrdersRoute, !.userId = userId, !.amount = coinsUsed,
                  !.pc = IF coinsUsed > 0 THEN "getUser" ELSE "createOrder"]]
    /\ UNCHANGED <<tables, calls>>

OrderGetUser(r) ==
    /\ req[r].route = OrdersRoute
    /\ req[r].pc = "getUser"
    /\ LET user == getUser(req[r].userId) IN
         IF InsufficientCoins(user, req[r].amount)
         THEN req' = [req EXCEPT ![r].user = user, ![r].pc = "done",
                                 ![r].status = 400, ![r].message = NotEnoughCoins]
         ELSE req' = [req EXCEPT ![r].user = user, ![r].pc = "updateUserCoins"]
    /\ UNCHANGED <<tables, calls>>

OrderUpdateUserCoins(r) ==
    /\ req[r].route = OrdersRoute
    /\ req[r].pc = "updateUserCoins"
    /\ users' = updateUserCoins(req[r].userId, RedeemDelta(req[r].amount))
    /\ req' = [req EXCEPT ![r].pc = "addCoinTransaction"]
    /\ UNCHANGED <<appointments, orders, coinTransactions, calls>>

OrderAddCoinTransaction(r) ==
    /\ req[r].route = OrdersRoute
    /\ req[r].pc = "addCoinTransaction"
    /\ coinTransactions' = addCoinTransaction(RedeemTransaction(req[r].userId, req[r].amount))
    /\ req' = [req EXCEPT ![r].pc = "createOrder"]
    /\ UNCHANGED <<users, appointments, orders, calls>>

OrderCreateOrder(r) ==
    /\ req[r].route = OrdersRoute
    /\ req[r].pc = "createOrder"
    /\ orders' = createOrder(req[r].userId, req[r].amount)
    /\ Respond(r, 200, "")
    /\ UNCHANGED <<users, appointments, coinTransactions, calls>>

\* the awaited storage call throws: the handler's catch answers 400
StorageCallThrows(r) ==
    /\ InFlight(r)
    /\ req' = [req EXCEPT ![r].pc = "done", ![r].status = 400,
                          ![r].message = StorageError, ![r].failedAt = req[r].pc]
    /\ UNCHANGED <<tables, calls>>

\* direct use of storage.updateUserCoins
CallUpdateUserCoins(c, userId, amount) ==
    /\ calls[c].pc = "idle"
    /\ IF c = 1 THEN TRUE ELSE calls[c - 1].pc # "idle"
    /\ calls' = [calls EXCEPT ![c] = [IdleCall EXCEPT
                    !.method = "updateUserCoins", !.userId = userId,
                    !.amount = amount, !.pc = "updateUserCoins"]]
    /\ UNCHANGED <<tables, req>>

ReturnUpdateUserCoins(c) ==
    /\ calls[c].pc = "updateUserCoins"
    /\ users' = updateUserCoins(calls[c].userId, calls[c].amount)
    /\ calls' = [calls EXCEPT ![c].pc = "done",
                              ![c].outcome = updateUserCoinsResult(calls[c].userId)]
    /\ UNCHANGED <<appointments, orders, coinTransactions, req>>

\* direct use of storage.upsertUser
CallUpsertUser(c, userId, hasCoinBalance, coinBalance) ==
    /\ calls[c].pc = "idle"
    /\ IF c = 1 THEN TRUE ELSE calls[c - 1].pc # "idle"
    /\ calls' = [calls EXCEPT ![c] = [IdleCall EXCEPT
                    !.method = "upsertUser", !.userId = userId,
                    !.hasCoinBalance = hasCoinBalance,
                    !.amount = IF hasCoinBalance THEN coinBalance ELSE 0,
                    !.pc = "upsertUser"]]
    /\ UNCHANGED <<tables, req>>

ReturnUpsertUser(c) ==
    /\ calls[c].pc = "upsertUser"
    /\ users' = upsertUser([id |-> calls[c].userId,
                            hasCoinBalance |-> calls[c].hasCoinBalance,
                            coinBalance |-> calls[c].amount])
    /\ calls' = [calls EXCEPT ![c].pc = "done", ![c].outcome = "returned row"]
    /\ UNCHANGED <<appointments, orders, coinTransactions, req>>

\* ------------------------------------------------------------ specifications
\* every user has booked one appointment before, all for the same number of
\* coins; the ledger reconciles
Init ==
    /\ \E coinsEarned \in Coins : users = [u \in Users |-> [coinBalance |-> coinsEarned]]
    /\ appointments = [i \in 1..Len(UserList) |->
           [id |-> i, userId |-> UserList[i], coinsEarned |-> users[UserList[i]].coinBalance]]
    /\ coinTransactions = [i \in 1..Len(UserList) |->
           AwardTransaction(UserList[i], users[UserList[i]].coinBalance, i)]
    /\ orders = <<>>
    /\ req = [r \in Requests |-> IdleRequest]
    /\ calls = [c \in Calls |-> IdleCall]

Receive ==
    \E r \in Requests, userId \in Users, amount \in Coins :
        \/ ReceiveAppointment(r, userId, amount)
        \/ ReceiveOrder(r, userId, amount)

Step ==
    \E r \in Requests :
        \/ AppointmentCreate(r)
        \/ AppointmentAddCoinTransaction(r)
        \/ AppointmentUpdateUserCoins(r)
        \/ OrderGetUser(r)
        \/ OrderUpdateUserCoins(r)
        \/ OrderAddCoinTransaction(r)
        \/ OrderCreateOrder(r)

Throw == \E r \in Requests : StorageCallThrows(r)

\* concurrent requests, storage never fails
Next == Receive \/ Step

Spec == Init /\ [][Next]_vars

\* concurrent requests, any storage call may throw
NextFail == Receive \/ Step \/ Throw

SpecFail == Init /\ [][NextFail]_vars

\* one request at a time, storage never fails
Quiet == \A r \in Requests : ~InFlight(r)

NextSeq == (Quiet /\ Receive) \/ Step

SpecSeq == Init /\ [][NextSeq]_vars

\* concurrent direct calls of storage.updateUserCoins and storage.upsertUser
NextStorage ==
    \/ \E c \in Calls, userId \in Users \cup {MissingUser}, amount \in Deltas :
           CallUpdateUserCoins(c, userId, amount)
    \/ \E c \in Calls : ReturnUpdateUserCoins(c)
    \/ \E c \in Calls, userId \in Users \cup {MissingUser},
           hasCoinBalance \in BOOLEAN, coinBalance \in Coins :
           CallUpsertUser(c, userId, hasCoinBalance, coinBalance)
    \/ \E c \in Calls : ReturnUpsertUser(c)

SpecStorage == Init /\ [][NextStorage]_vars

\* ------------------------------------------------------------------ claims
\* the balance a user had before any request: the amount of the opening
\* entry of the append-only ledger
UserIndex(userId) == CHOOSE i \in 1..Len(UserList) : UserList[i] = userId

InitialBalance(userId) ==
    IF userId \in Users
    THEN coinTransactions[UserIndex(userId)].amount
    ELSE DefaultCoinBalance

Reconciled == \A u \in DOMAIN users : LedgerSum(u) = users[u].coinBalance

Succeeded(r) == req[r].pc = "done" /\ req[r].status = 200

Rejected(r) ==
    req[r].pc = "done" /\ req[r].status = 400 /\ req[r].message = NotEnoughCoins

\* an updateUserCoins call that was executed and matched the user's row
Applied(c, userId) ==
    /\ calls[c].method = "updateUserCoins"
    /\ calls[c].pc = "done"
    /\ calls[c].userId = userId
    /\ calls[c].outcome = "returned row"

\* an executed upsertUser whose userData carried a coinBalance for the user
Overwritten(userId) ==
    \E c \in Calls :
        /\ calls[c].method = "upsertUser"
        /\ calls[c].pc = "done"
        /\ calls[c].userId = userId
        /\ calls[c].hasCoinBalance

RECURSIVE SumCalls(_, _)
SumCalls(n, userId) ==
    IF n = 0 THEN 0
    ELSE (IF Applied(n, userId) THEN calls[n].amount ELSE 0) + SumCalls(n - 1, userId)

\* C1: once every request received so far has completed (answered 200, or
\* was rejected for insufficient coins), each user's ledger sums to the
\* user's coinBalance.
C1_LedgerReconciles ==
    (\A r \in Requests : req[r].pc = "idle" \/ Succeeded(r) \/ Rejected(r)) => Reconciled

C1_Witness ==
    /\ \A r \in Requests : Succeeded(r) \/ Rejected(r)
    /\ \E r \in Requests :
           Succeeded(r) /\ req[r].route = AppointmentsRoute /\ req[r].amount > 0
    /\ \E r \in Requests :
           Succeeded(r) /\ req[r].route = OrdersRoute /\ req[r].amount > 0
    /\ Reconciled

\* C2: of two redeem requests of one user, each within the initial balance
\* and together above it, exactly one succeeds, the other is rejected for
\* insufficient coins, and the final balance is the initial balance minus
\* the successful amount.
C2_ExactlyOneRedeemSucceeds ==
    \A r1, r2 \in Requests :
        ( /\ r1 < r2
          /\ \A q \in Requests \ {r1, r2} : req[q].pc = "idle"
          /\ req[r1].route = OrdersRoute /\ req[r2].route = OrdersRoute
          /\ req[r1].userId = req[r2].userId
          /\ req[r1].pc = "done" /\ req[r2].pc = "done"
          /\ req[r1].amount > 0 /\ req[r2].amount > 0
          /\ req[r1].amount <= InitialBalance(req[r1].userId)
          /\ req[r2].amount <= InitialBalance(req[r1].userId)
          /\ req[r1].amount + req[r2].amount > InitialBalance(req[r1].userId) )
        => \/ /\ Succeeded(r1) /\ Rejected(r2)
              /\ users[req[r1].userId].coinBalance
                     = InitialBalance(req[r1].userId) - req[r1].amount
           \/ /\ Succeeded(r2) /\ Rejected(r1)
              /\ users[req[r1].userId].coinBalance
                     = InitialBalance(req[r1].userId) - req[r2].amount

\* C3: while only bookings are being handled, whoever reads a user's balance
\* and ledger sees them agree: the new ledger entry is never visible without
\* the matching balance increase.
C3_AwardNotObservableHalfDone ==
    (\A r \in Requests : req[r].route \in {NoRoute, AppointmentsRoute}) => Reconciled

\* C4: when updateUserCoins throws in a booking after the coin transaction
\* was written, no ledger entry for that appointment remains.
C4_FailedAwardLeavesNoLedgerEntry ==
    \A r \in Requests :
        ( /\ req[r].route = AppointmentsRoute
          /\ req[r].pc = "done"
          /\ req[r].failedAt = "updateUserCoins" )
        => ~ \E i \in 1..Len(coinTransactions) :
                 /\ coinTransactions[i].type = EarnedAppointment
                 /\ coinTransactions[i].relatedId = req[r].appointmentId

\* C5: when createOrder throws after coins were redeemed for the order, the
\* user's balance and ledger are as before the request and no order exists
\* (stated for a request that ran alone).
C5_FailedOrderRollsBackRedemption ==
    \A r \in Requests :
        ( /\ req[r].route = OrdersRoute
          /\ req[r].pc = "done"
          /\ req[r].failedAt = "createOrder"
          /\ req[r].amount > 0
          /\ \A q \in Requests \ {r} : req[q].pc = "idle" )
        => /\ users[req[r].userId].coinBalance = InitialBalance(req[r].userId)
           /\ Len(coinTransactions) = Len(UserList)
           /\ orders = <<>>

\* C6: with one request at a time, a redeem of exactly the balance passes
\* the funds check, is answered 200 and leaves the balance at 0; a redeem of
\* balance + 1 is rejected for insufficient coins and changes no table.
C6_RedeemBoundary ==
    [][ \A r \in Requests :
          /\ ( /\ req[r].route = OrdersRoute
               /\ req[r].pc = "getUser" /\ req'[r].pc # "getUser"
               /\ req[r].amount = users[req[r].userId].coinBalance )
             => req'[r].pc = "updateUserCoins"
          /\ ( /\ req[r].route = OrdersRoute
               /\ req[r].pc = "createOrder" /\ req'[r].pc # "createOrder"
               /\ req[r].amount > 0
               /\ req[r].amount = req[r].user.coinBalance )
             => /\ req'[r].pc = "done" /\ req'[r].status = 200
                /\ users'[req[r].userId].coinBalance = 0
                /\ Len(orders') = Len(orders) + 1
                /\ orders'[Len(orders')].coinsUsed = req[r].amount
          /\ ( /\ req[r].route = OrdersRoute
               /\ req[r].pc = "getUser" /\ req'[r].pc # "getUser"
               /\ req[r].amount = users[req[r].userId].coinBalance + 1 )
             => /\ req'[r].pc = "done" /\ req'[r].status = 400
                /\ req'[r].message = NotEnoughCoins
                /\ UNCHANGED tables
      ]_vars

C6_Witness ==
    \E r1, r2 \in Requests :
        /\ req[r1].route = OrdersRoute /\ Succeeded(r1)
        /\ req[r1].amount > 0 /\ req[r1].amount = req[r1].user.coinBalance
        /\ req[r2].route = OrdersRoute /\ Rejected(r2)
        /\ req[r2].userId = req[r1].userId
        /\ req[r2].amount = req[r2].user.coinBalance + 1
        /\ users[req[r1].userId].coinBalance = 0

\* C7: whatever the order in which concurrent updateUserCoins calls are
\* executed, the balance of a user row is its initial balance (the column
\* default for a row inserted meanwhile) plus the deltas of all the calls
\* executed on that row, as long as no upsertUser wrote a coinBalance to it.
C7_NoLostUpdate ==
    \A u \in DOMAIN users :
        ~Overwritten(u)
        => users[u].coinBalance = InitialBalance(u) + SumCalls(MaxCalls, u)

C7_Witness ==
    \E c1, c2 \in Calls :
        /\ c1 # c2
        /\ Applied(c1, calls[c1].userId) /\ Applied(c2, calls[c1].userId)
        /\ calls[c1].amount # 0 /\ calls[c2].amount # 0
        /\ calls[c1].amount # calls[c2].amount

\* C8: no user's coinBalance is ever negative.
C8_BalanceNeverNegative ==
    \A u \in DOMAIN users : users[u].coinBalance >= 0

\* C9: updateUserCoins for a user id that matches no row does not return
\* normally.
C9_MissingUserIsAnError ==
    \A c \in Calls :
        ( /\ calls[c].method = "updateUserCoins"
          /\ calls[c].pc = "done"
          /\ calls[c].userId \notin DOMAIN users )
        => calls[c].outcome \notin {"returned row", "returned undefined"}

\* C10: in every state, mid-request and after storage failures included,
\* each user's coinBalance is at most the sum of the user's ledger.
C10_BalanceAtMostLedger ==
    \A u \in DOMAIN users : users[u].coinBalance <= LedgerSum(u)

C10_Witness ==
    /\ \E r \in Requests :
           /\ req[r].route = AppointmentsRoute /\ req[r].amount > 0
           /\ req[r].failedAt = "updateUserCoins"
           /\ users[req[r].userId].coinBalance < LedgerSum(req[r].userId)
    /\ \E r \in Requests :
           /\ req[r].route = OrdersRoute
           /\ req[r].pc = "addCoinTransaction"
           /\ users[req[r].userId].coinBalance < LedgerSum(req[r].userId)

=============================================================================
